---- MODULE Spec2Model ----
(***************************************************************************)
(* A model of the NLMS echo canceller of echo_nlms/src/lib.rs, of the      *)
(* delay-jammer loop that drives it and its delay line and chunk I/O       *)
(* (src/bin/delay-jammer.rs), and of the pitch hold of src/main.rs.        *)
(*                                                                         *)
(* Number model.  Samples are i16 integers.  The f32 values of the filter  *)
(* are modelled without floating point:                                    *)
(*   - taps, estimate, error: fixed point, an integer count of             *)
(*     1/TapScale;                                                         *)
(*   - energy, epsilon, norm: exact decimals [u, m] = u + m/10^6, which    *)
(*     hold 1e-6 and 1e-3 and every sum of squares of samples exactly;     *)
(*   - mu: an exact fraction [num, den];                                   *)
(*   - the increment scale * history[idx] = (mu*error/norm)*history[idx]   *)
(*     is rounded once, toward zero, to 1/TapScale.                        *)
(***************************************************************************)
EXTENDS Integers, Sequences, FiniteSets, TLC

VARIABLES
    phase,        \* "none" before NlmsCanceller::new, "live", or "panicked"
    taps,         \* NlmsCanceller.taps, fixed point
    history,      \* NlmsCanceller.history
    history_pos,  \* NlmsCanceller.history_pos
    energy,       \* NlmsCanceller.energy, a decimal
    mu,           \* NlmsCanceller.mu, a fraction
    epsilon,      \* NlmsCanceller.epsilon, a decimal
    output,       \* the caller's output buffer as the last call left it
    call,         \* the last call and what it computed sample by sample
    pre,          \* the filter as it was when the last call started
    ingested,     \* every render sample ingested since construction, in order
    offered,      \* samples handed to process_block so far
    disable_echo, \* delay-jammer: run's argument (canceller is None when set)
    input,        \* delay-jammer: run's input chunk
    cleaned,      \* delay-jammer: run's cleaned chunk
    run_output,   \* delay-jammer: run's output chunk
    render_history, \* delay-jammer: run's render_history chunk
    delay_line,   \* delay-jammer: run's delay_line
    delay_pos,    \* delay-jammer: run's delay_pos
    gate,         \* delay-jammer: the levels and the adapt flag of the last iteration
    iter,         \* delay-jammer: iterations of run's loop so far
    delay_in,     \* every sample handed to process_delay so far, in order
    delay_out,    \* every sample process_delay has put out so far, in order
    delay_blocks, \* the block lengths of the process_delay calls so far
    active_count, \* main.rs: run's active_count
    active_freqs, \* main.rs: run's active_freqs, in Hz
    last_reported, \* main.rs: run's last_reported, in Hz
    phases,       \* main.rs: run's phases, each as the chunks synthesised
                  \* since it was last 0.0 (0 exactly when the phase is 0.0)
    frames_since_detection, \* main.rs: run's frames_since_detection
    pitches,      \* main.rs: the pitches of the last iteration
    quiet,        \* iterations without a detection since the last detection
    held,         \* active_count and active_freqs as the last detection left them
    hold_iter,    \* main.rs: iterations of run's loop so far
    io_op,        \* "read" in read_chunk, "write" in write_chunk, "none" outside
    io_pc,        \* "idle", "loop" (at the while test), "ok" or "err" (returned)
    buffer,       \* read_chunk / write_chunk: the caller's buffer
    offset,       \* read_chunk / write_chunk: offset
    io_result,    \* what the call returned: "Ok" or the error's name
    io_moved,     \* the frames the device has delivered or taken in this call
    io_last,      \* the last answer of the device and offset and buffer before it
    io_prepares,  \* successful pcm.prepare() calls in this call
    io_again,     \* EAGAIN answers in this call
    io_tries      \* readi / writei calls in this call

filter_vars == <<phase, taps, history, history_pos, energy, mu, epsilon,
                 output, call, pre, ingested, offered>>

run_vars == <<disable_echo, input, cleaned, run_output, render_history,
              delay_line, delay_pos, gate, iter, delay_in, delay_out, delay_blocks>>

hold_vars == <<active_count, active_freqs, last_reported, phases,
               frames_since_detection, pitches, quiet, held, hold_iter>>

io_vars == <<io_op, io_pc, buffer, offset, io_result, io_moved, io_last,
             io_prepares, io_again, io_tries>>

vars == <<filter_vars, run_vars, hold_vars, io_vars>>

-----------------------------------------------------------------------------
(* Bounds of the model *)

MaxTaps == 2
MaxLen == 3
MaxSamples == 3
TapScale == 1024

(* The sizes of the delay-jammer model: they stand for CHUNK_SIZE = 4096,   *)
(* AEC_TAPS = 2048 and delay_frames = 7200, and MaxIters bounds the loop    *)
ChunkSize == 2
AecTaps == 2
DelayFrames == 3
MaxIters == 4

(* The delay line on its own: lengths up to MaxDelay, blocks of up to       *)
(* MaxBlock samples, MaxDelayCalls calls and MaxDelaySamples samples in all *)
MaxDelay == 3
MaxBlock == 3
MaxDelayCalls == 4
MaxDelaySamples == 6

(* The iterations of the pitch loop of main.rs *)
MaxHoldIters == 9

(* read_chunk and write_chunk: buffers of up to MaxChunk frames and up to   *)
(* MaxTries calls of readi or writei in one call                            *)
MaxChunk == 3
MaxTries == 5

(* Program constants *)

I16_MIN == -32768
I16_MAX == 32767
MAX_VOICES == 3
HOLD_FRAMES == 6
EpsilonMicro == 1000
InitEnergyMicro == 1

Micro == 1000 * 1000

-----------------------------------------------------------------------------
(* Exact decimals u + m/10^6 with 0 <= m < 10^6 *)

Dec(u, m) == [u |-> u + (m \div Micro), m |-> m % Micro]

DecAdd(a, b) == Dec(a.u + b.u, a.m + b.m)

DecAddInt(a, k) == [u |-> a.u + k, m |-> a.m]

DecLess(a, b) == a.u < b.u \/ (a.u = b.u /\ a.m < b.m)

DecTimes(k, a) == Dec(k * a.u, k * a.m)

DecSub(a, b) ==
    IF a.m >= b.m THEN [u |-> a.u - b.u, m |-> a.m - b.m]
    ELSE [u |-> a.u - b.u - 1, m |-> a.m + Micro - b.m]

Abs(x) == IF x < 0 THEN -x ELSE x

Sign(x) == IF x < 0 THEN -1 ELSE IF x > 0 THEN 1 ELSE 0

RECURSIVE Pow10(_)
Pow10(k) == IF k = 0 THEN 1 ELSE 10 * Pow10(k - 1)

RECURSIVE NumDigits(_)
NumDigits(n) == IF n < 10 THEN 1 ELSE 1 + NumDigits(n \div 10)

(* The largest k <= hi with k * d <= r *)
RECURSIVE DownTo(_, _, _)
DownTo(r, d, hi) ==
    IF hi = 0 \/ ~DecLess(r, DecTimes(hi, d)) THEN hi ELSE DownTo(r, d, hi - 1)

(* floor(r / d) for decimals 0 <= r < 10 * d, d > 0: one quotient digit *)
QDigit(r, d) ==
    IF d.u = 0 THEN (r.u * Micro + r.m) \div d.m
    ELSE LET est == r.u \div d.u
         IN  DownTo(r, d, IF est > 9 THEN 9 ELSE est)

(* floor(n / d) for a natural n and a decimal d > 0, by decimal long        *)
(* division of n * 10^6 by d * 10^6: i digits are still to be brought down, *)
(* q is the quotient so far and r the remainder so far (a decimal).         *)
RECURSIVE LongDiv(_, _, _, _, _)
LongDiv(n, d, i, q, r) ==
    IF i = 0 THEN q
    ELSE LET dig == IF i > 6 THEN (n \div Pow10(i - 7)) % 10 ELSE 0
             r1  == DecAdd(DecTimes(10, r), Dec(0, dig))
             k   == QDigit(r1, d)
         IN  LongDiv(n, d, i - 1, 10 * q + k, DecSub(r1, DecTimes(k, d)))

(* floor(r * 10^i / D) + q * 10^i for naturals r < D: the short division   *)
(* used while 10 * D fits the integers                                      *)
RECURSIVE ShortDiv(_, _, _, _)
ShortDiv(r, D, i, q) ==
    IF i = 0 THEN q
    ELSE ShortDiv((10 * r) % D, D, i - 1, 10 * q + ((10 * r) \div D))

(* n / d rounded toward zero, n an integer, d a decimal > 0 *)
Quot(n, d) ==
    IF n = 0 THEN 0
    ELSE IF d.u < 200
         THEN LET D == d.u * Micro + d.m
              IN  Sign(n) * ShortDiv(Abs(n) % D, D, 6, Abs(n) \div D)
         ELSE Sign(n) * LongDiv(Abs(n), d, NumDigits(Abs(n)) + 6, 0, Dec(0, 0))

(* a / b rounded toward zero, b > 0 *)
TruncDiv(a, b) == Sign(a) * (Abs(a) \div b)

-----------------------------------------------------------------------------
(* Sequences indexed from 0, as the source's slices and vectors are *)

At(s, i) == s[i + 1]

Put(s, i, v) == [s EXCEPT ![i + 1] = v]

Zeros(n) == [i \in 1..n |-> 0]

-----------------------------------------------------------------------------
(* echo_nlms/src/lib.rs *)

(* DEFAULT_EPSILON = 1e-3 *)
DEFAULT_EPSILON == Dec(0, EpsilonMicro)

(* The filter as one value: the fields of NlmsCanceller *)
Self ==
    [taps |-> taps, history |-> history, history_pos |-> history_pos,
     energy |-> energy, mu |-> mu, epsilon |-> epsilon]

(* Faulty variant: the assertion is missing *)
new_ok_any(tap_len) == tap_len >= 0

(* assert!(tap_len > 0, "tap_len must be positive") *)
new_ok(tap_len) == tap_len > 0

(* The struct NlmsCanceller::new builds *)
new(tap_len, m) ==
    [taps |-> Zeros(tap_len), history |-> Zeros(tap_len), history_pos |-> 0,
     energy |-> Dec(0, InitEnergyMicro), mu |-> m, epsilon |-> DEFAULT_EPSILON]

dec_idx(len, idx) == IF idx = 0 THEN len - 1 ELSE idx - 1

(* estimate_echo: k taps are done, idx is the cursor, acc the sum so far *)
RECURSIVE estimate_loop(_, _, _, _)
estimate_loop(s, k, idx, acc) ==
    IF k = Len(s.taps) THEN acc
    ELSE LET i == dec_idx(Len(s.history), idx)
         IN  estimate_loop(s, k + 1, i, acc + At(s.taps, k) * At(s.history, i))

(* Faulty variant: the walk reads the slot under the cursor before stepping back *)
RECURSIVE estimate_loop_late(_, _, _, _)
estimate_loop_late(s, k, idx, acc) ==
    IF k = Len(s.taps) THEN acc
    ELSE estimate_loop_late(s, k + 1, dec_idx(Len(s.history), idx),
                            acc + At(s.taps, k) * At(s.history, idx))

estimate_echo_late(s) == estimate_loop_late(s, 0, s.history_pos, 0)

estimate_echo(s) == estimate_loop(s, 0, s.history_pos, 0)

(* Faulty variant: the step size is left out of scale *)
tap_step_no_mu(m, error, norm, h) == Quot(error * h, norm)

(* scale * h, where scale = mu * error / norm *)
tap_step(m, error, norm, h) == Quot(m.num * error * h, DecTimes(m.den, norm))

(* update_taps: k taps are done, idx is the cursor, w the taps so far *)
RECURSIVE update_loop(_, _, _, _, _, _)
update_loop(s, w, error, norm, k, idx) ==
    IF k = Len(w) THEN w
    ELSE LET i == dec_idx(Len(s.history), idx)
             d == tap_step(s.mu, error, norm, At(s.history, i))
         IN  update_loop(s, Put(w, k, At(w, k) + d), error, norm, k + 1, i)

update_taps(s, error) ==
    LET norm == DecAdd(s.energy, s.epsilon)
    IN  [s EXCEPT !.taps = update_loop(s, s.taps, error, norm, 0, s.history_pos)]

(* f32::clamp *)
clamp(x, lo, hi) == IF x < lo THEN lo ELSE IF x > hi THEN hi ELSE x

(* `as i16` of an f32: the fraction is dropped, out-of-range values saturate *)
as_i16(x) == clamp(TruncDiv(x, TapScale), I16_MIN, I16_MAX)

(* Faulty variant: no clamp, and a narrowing that wraps *)
to_output_wrapping(error) ==
    ((TruncDiv(error, TapScale) - I16_MIN) % (I16_MAX - I16_MIN + 1)) + I16_MIN

(* error.clamp(limit_min, limit_max) as i16 *)
to_output(error) == as_i16(clamp(error, I16_MIN * TapScale, I16_MAX * TapScale))

(* Faulty variant: the energy is not held at the floor *)
ingest_no_floor(s, new_sample) ==
    LET old_sample == At(s.history, s.history_pos)
        e1 == DecAddInt(s.energy, new_sample * new_sample - old_sample * old_sample)
    IN  [s EXCEPT !.history = Put(@, s.history_pos, new_sample),
                  !.energy = e1,
                  !.history_pos = (s.history_pos + 1) % Len(s.history)]

(* Faulty variant: the cursor stops at the last slot instead of wrapping to 0 *)
ingest_no_wrap(s, new_sample) ==
    LET old_sample == At(s.history, s.history_pos)
        e1 == DecAddInt(s.energy, new_sample * new_sample - old_sample * old_sample)
        e2 == IF DecLess(e1, s.epsilon) THEN s.epsilon ELSE e1
    IN  [s EXCEPT !.history = Put(@, s.history_pos, new_sample),
                  !.energy = e2,
                  !.history_pos = IF s.history_pos + 1 < Len(s.history)
                                  THEN s.history_pos + 1 ELSE s.history_pos]

(* Faulty variant: the cursor advances before the sample is stored *)
ingest_advance_first(s, new_sample) ==
    LET pos == (s.history_pos + 1) % Len(s.history)
        old_sample == At(s.history, pos)
        e1 == DecAddInt(s.energy, new_sample * new_sample - old_sample * old_sample)
        e2 == IF DecLess(e1, s.epsilon) THEN s.epsilon ELSE e1
    IN  [s EXCEPT !.history = Put(@, pos, new_sample),
                  !.energy = e2,
                  !.history_pos = pos]

(* The render sample enters the ring and the energy; the cursor advances *)
ingest(s, new_sample) ==
    LET old_sample == At(s.history, s.history_pos)
        e1 == DecAddInt(s.energy, new_sample * new_sample - old_sample * old_sample)
        e2 == IF DecLess(e1, s.epsilon) THEN s.epsilon ELSE e1
    IN  [s EXCEPT !.history = Put(@, s.history_pos, new_sample),
                  !.energy = e2,
                  !.history_pos = (s.history_pos + 1) % Len(s.history)]

(* Faulty variant: the estimate is taken before the render sample is ingested *)
sample_step_estimate_first(s, r, c, adapt) ==
    LET estimate == estimate_echo(s)
        s1 == ingest(s, r)
        error == c * TapScale - estimate
        s2 == IF adapt THEN update_taps(s1, error) ELSE s1
    IN  [s |-> s2, out |-> to_output(error),
         step |-> [estimate |-> estimate, error |-> error, ingested |-> s1, after |-> s2]]

(* Faulty variant: the taps are updated whatever the adapt flag says *)
sample_step_update_always(s, r, c, adapt) ==
    LET s1 == ingest(s, r)
        estimate == estimate_echo(s1)
        error == c * TapScale - estimate
        s2 == update_taps(s1, error)
    IN  [s |-> s2, out |-> to_output(error),
         step |-> [estimate |-> estimate, error |-> error, ingested |-> s1, after |-> s2]]

(* One pass of the loop body of process_block *)
sample_step(s, r, c, adapt) ==
    LET s1 == ingest(s, r)
        estimate == estimate_echo(s1)
        error == c * TapScale - estimate
        s2 == IF adapt THEN update_taps(s1, error) ELSE s1
    IN  [s |-> s2, out |-> to_output(error),
         step |-> [estimate |-> estimate, error |-> error, ingested |-> s1, after |-> s2]]

(* for idx in 0..render.len() *)
RECURSIVE block_loop(_, _, _, _, _)
block_loop(acc, render, capture, adapt, idx) ==
    IF idx = Len(render) THEN acc
    ELSE LET one == sample_step(acc.s, At(render, idx), At(capture, idx), adapt)
         IN  block_loop([ok |-> TRUE, s |-> one.s,
                         output |-> Put(acc.output, idx, one.out),
                         trace |-> Append(acc.trace, one.step)],
                        render, capture, adapt, idx + 1)

Min3(a, b, c) ==
    IF a <= b /\ a <= c THEN a ELSE IF b <= c THEN b ELSE c

(* Faulty variant: the lengths are compared after the loop has run over the *)
(* samples all three slices have                                     *)
process_block_late_check(s, render, capture, out, adapt) ==
    LET n == Min3(Len(render), Len(capture), Len(out))
        res == block_loop([ok |-> TRUE, s |-> s, output |-> out, trace |-> <<>>],
                          SubSeq(render, 1, n), SubSeq(capture, 1, n), adapt, 0)
    IN  [res EXCEPT !.ok = (Len(render) = Len(capture) /\ Len(capture) = Len(out))]

(* Faulty variant: every call starts with the cursor at slot 0 *)
process_block_rewind(s, render, capture, out, adapt) ==
    IF Len(render) # Len(capture) \/ Len(capture) # Len(out)
    THEN [ok |-> FALSE, s |-> s, output |-> out, trace |-> <<>>]
    ELSE block_loop([ok |-> TRUE, s |-> [s EXCEPT !.history_pos = 0],
                     output |-> out, trace |-> <<>>],
                    render, capture, adapt, 0)

(* process_block: the two assert_eq! first, then the loop *)
process_block(s, render, capture, out, adapt) ==
    IF Len(render) # Len(capture) \/ Len(capture) # Len(out)
    THEN [ok |-> FALSE, s |-> s, output |-> out, trace |-> <<>>]
    ELSE block_loop([ok |-> TRUE, s |-> s, output |-> out, trace |-> <<>>],
                    render, capture, adapt, 0)

-----------------------------------------------------------------------------
(* The inputs of the model *)

TapLens == 0..MaxTaps

MuVals == {[num |-> 0, den |-> 1], [num |-> 1, den |-> 2]}

(* (render, capture) sample pairs *)
SamplePairs == {<<0, 3>>, <<2, I16_MIN>>, <<2, I16_MAX>>, <<-1, 3>>}

PairBlocks == UNION {[1..n -> SamplePairs] : n \in 0..MaxLen}

RenderOf(b) == [i \in 1..Len(b) |-> b[i][1]]

CaptureOf(b) == [i \in 1..Len(b) |-> b[i][2]]

(* What the caller's buffer holds before the call *)
StaleBuffer(n) == [i \in 1..n |-> I16_MAX - 1]

Max3(a, b, c) ==
    IF a >= b /\ a >= c THEN a ELSE IF b >= c THEN b ELSE c

NoFilter ==
    [taps |-> <<>>, history |-> <<>>, history_pos |-> 0, energy |-> Dec(0, 0),
     mu |-> [num |-> 0, den |-> 1], epsilon |-> Dec(0, 0)]

NoCall ==
    [op |-> "none", tap_len |-> 0, render |-> <<>>, capture |-> <<>>,
     out_len |-> 0, adapt |-> FALSE, ok |-> TRUE, trace |-> <<>>]

(* The fields of the filter are those of s *)
HasFilter(s) ==
    /\ taps = s.taps
    /\ history = s.history
    /\ history_pos = s.history_pos
    /\ energy = s.energy
    /\ mu = s.mu
    /\ epsilon = s.epsilon

NoGate == [render_level |-> [num |-> 0, den |-> 1],
           capture_level |-> [num |-> 0, den |-> 1], adapt |-> FALSE]

(* The delay-jammer variables while no loop runs *)
RunIdle ==
    /\ disable_echo = FALSE
    /\ input = <<>>
    /\ cleaned = <<>>
    /\ run_output = <<>>
    /\ render_history = <<>>
    /\ delay_line = <<>>
    /\ delay_pos = 0
    /\ gate = NoGate
    /\ iter = 0
    /\ delay_in = <<>>
    /\ delay_out = <<>>
    /\ delay_blocks = <<>>

NoHeld == [count |-> 0, freqs |-> Zeros(MAX_VOICES)]

(* main.rs, run, lines 33-38: the voice state before the loop *)
HoldStart ==
    /\ active_count = 0
    /\ active_freqs = Zeros(MAX_VOICES)
    /\ last_reported = Zeros(MAX_VOICES)
    /\ phases = Zeros(MAX_VOICES)
    /\ frames_since_detection = HOLD_FRAMES
    /\ pitches = <<>>
    /\ quiet = 0
    /\ held = NoHeld
    /\ hold_iter = 0

NoAnswer ==
    [answer |-> "none", prepare |-> "none", frames |-> 0, offset |-> 0,
     buffer |-> <<>>]

(* No read_chunk or write_chunk is running *)
IoIdle ==
    /\ io_op = "none"
    /\ io_pc = "idle"
    /\ buffer = <<>>
    /\ offset = 0
    /\ io_result = "none"
    /\ io_moved = <<>>
    /\ io_last = NoAnswer
    /\ io_prepares = 0
    /\ io_again = 0
    /\ io_tries = 0

-----------------------------------------------------------------------------
(* The library session: one construction, then calls of process_block *)

Init ==
    /\ phase = "none"
    /\ HasFilter(NoFilter)
    /\ output = <<>>
    /\ call = NoCall
    /\ pre = NoFilter
    /\ ingested = <<>>
    /\ offered = 0
    /\ RunIdle
    /\ HoldStart
    /\ IoIdle

SetFilter(s) ==
    /\ taps' = s.taps
    /\ history' = s.history
    /\ history_pos' = s.history_pos
    /\ energy' = s.energy
    /\ mu' = s.mu
    /\ epsilon' = s.epsilon

(* NlmsCanceller::new(tap_len, mu); assert!(tap_len > 0) *)
New ==
    /\ phase = "none"
    /\ \E tap_len \in TapLens, m \in MuVals :
          /\ call' = [NoCall EXCEPT !.op = "new", !.tap_len = tap_len,
                                    !.ok = new_ok(tap_len)]
          /\ IF new_ok(tap_len)
             THEN phase' = "live" /\ SetFilter(new(tap_len, m))
             ELSE phase' = "panicked" /\ SetFilter(NoFilter)
    /\ pre' = Self
    /\ UNCHANGED <<output, ingested, offered, run_vars, hold_vars, io_vars>>

(* canceller.process_block(render, capture, out, adapt) *)
Process(render, capture, out, adapt) ==
    \E res \in {process_block(Self, render, capture, out, adapt)} :
        /\ phase' = IF res.ok THEN "live" ELSE "panicked"
        /\ SetFilter(res.s)
        /\ output' = res.output
        /\ call' = [op |-> "process_block", tap_len |-> Len(taps),
                    render |-> render, capture |-> capture, out_len |-> Len(out),
                    adapt |-> adapt, ok |-> res.ok, trace |-> res.trace]
        /\ pre' = Self
        /\ ingested' = ingested \o [i \in 1..Len(res.trace) |-> At(render, i - 1)]
        /\ offered' = offered + Max3(Len(render), Len(capture), Len(out))

(* A call with three slices of one length *)
ProcessBlock ==
    /\ phase = "live"
    /\ \E b \in PairBlocks, adapt \in BOOLEAN :
          /\ offered + Len(b) <= MaxSamples
          /\ Process(RenderOf(b), CaptureOf(b), StaleBuffer(Len(b)), adapt)
    /\ UNCHANGED <<run_vars, hold_vars, io_vars>>

(* A call whose slices differ in length *)
ProcessBlockMismatch ==
    /\ phase = "live"
    /\ \E lr \in 0..MaxLen, lc \in 0..MaxLen, lo \in 0..MaxLen, adapt \in BOOLEAN :
          /\ ~(lr = lc /\ lc = lo)
          /\ offered + Max3(lr, lc, lo) <= MaxSamples
          /\ Process([i \in 1..lr |-> 2], [i \in 1..lc |-> 3], StaleBuffer(lo), adapt)
    /\ UNCHANGED <<run_vars, hold_vars, io_vars>>

Next == New \/ ProcessBlock \/ ProcessBlockMismatch

Spec == Init /\ [][Next]_vars

-----------------------------------------------------------------------------
(* src/bin/delay-jammer.rs *)

(* NLMS_STEP_SIZE = 0.1, MIN_RENDER_LEVEL = 0.002, DOUBLE_TALK_RATIO = 2.5 *)
NLMS_STEP_SIZE == [num |-> 1, den |-> 10]

MIN_RENDER_LEVEL == [num |-> 1, den |-> 500]

DOUBLE_TALK_RATIO == [num |-> 5, den |-> 2]

(* a/b < c/d for naturals a, c and positive b, d, by comparing the integer  *)
(* parts and then the reciprocals of the fractional parts                   *)
RECURSIVE FracLess(_, _, _, _)
FracLess(a, b, c, d) ==
    IF a \div b # c \div d THEN a \div b < c \div d
    ELSE IF c % d = 0 THEN FALSE
    ELSE IF a % b = 0 THEN TRUE
    ELSE FracLess(d, c % d, b, a % b)

RECURSIVE SumSquares(_)
SumSquares(samples) ==
    IF samples = <<>> THEN 0
    ELSE Head(samples) * Head(samples) + SumSquares(Tail(samples))

(* rms_level.  A level is kept as its square in units of 1/i16::MAX^2, the  *)
(* fraction num/den: the mean square of the samples, or i16::MAX^2 when     *)
(* min(1.0) caps the level.  Levels are only ever compared, and squaring    *)
(* keeps the order of non-negative numbers.                                 *)
rms_level(samples) ==
    IF Len(samples) = 0 THEN [num |-> 0, den |-> 1]
    ELSE LET sum == SumSquares(samples)
         IN  IF sum \div (I16_MAX * I16_MAX) >= Len(samples)
             THEN [num |-> I16_MAX * I16_MAX, den |-> 1]
             ELSE [num |-> sum, den |-> Len(samples)]

(* level > threshold, the threshold a fraction *)
LevelAbove(level, thr) ==
    IF thr.num = 0 THEN level.num > 0
    ELSE FracLess(I16_MAX * I16_MAX, thr.den * thr.den,
                  level.num, level.den * thr.num * thr.num)

(* level <= other * ratio, the ratio a fraction >= 0 *)
LevelWithin(level, other, ratio) ==
    IF ratio.num = 0 THEN level.num = 0
    ELSE ~FracLess(other.num, other.den * ratio.den * ratio.den,
                   level.num, level.den * ratio.num * ratio.num)

(* Faulty variant: the two levels are passed in the wrong order *)
gate_adapt_swapped(render_level, capture_level, min_level, ratio) ==
    /\ LevelAbove(capture_level, min_level)
    /\ LevelWithin(render_level, capture_level, ratio)

(* render_level > MIN_RENDER_LEVEL && capture_level <= render_level * DOUBLE_TALK_RATIO *)
gate_adapt(render_level, capture_level, min_level, ratio) ==
    /\ LevelAbove(render_level, min_level)
    /\ LevelWithin(capture_level, render_level, ratio)

(* Faulty variant: the slot is overwritten before it is read *)
RECURSIVE process_delay_loop_write_first(_, _, _)
process_delay_loop_write_first(acc, samples, idx) ==
    IF idx = Len(samples) THEN acc
    ELSE LET line == Put(acc.delay_line, acc.delay_pos, At(samples, idx))
             delayed == At(line, acc.delay_pos)
             pos == acc.delay_pos + 1
         IN  process_delay_loop_write_first(
                 [output |-> Put(acc.output, idx, delayed),
                  delay_line |-> line,
                  delay_pos |-> IF pos = Len(acc.delay_line) THEN 0 ELSE pos],
                 samples, idx + 1)

process_delay_write_first(samples, out, line, pos) ==
    process_delay_loop_write_first(
        [output |-> out, delay_line |-> line, delay_pos |-> pos], samples, 0)

(* process_delay: idx samples are done *)
RECURSIVE process_delay_loop(_, _, _)
process_delay_loop(acc, samples, idx) ==
    IF idx = Len(samples) THEN acc
    ELSE LET delayed == At(acc.delay_line, acc.delay_pos)
             pos == acc.delay_pos + 1
         IN  process_delay_loop(
                 [output |-> Put(acc.output, idx, delayed),
                  delay_line |-> Put(acc.delay_line, acc.delay_pos, At(samples, idx)),
                  delay_pos |-> IF pos = Len(acc.delay_line) THEN 0 ELSE pos],
                 samples, idx + 1)

process_delay(samples, out, line, pos) ==
    process_delay_loop([output |-> out, delay_line |-> line, delay_pos |-> pos],
                       samples, 0)

(* What read_chunk delivers *)
InputVals == {0, 100}

Chunks == [1..ChunkSize -> InputVals]

(* run, up to the loop: the buffers are zeroed and the canceller is built   *)
(* unless disable_echo is set                                               *)
RunInit ==
    /\ disable_echo \in BOOLEAN
    /\ input = Zeros(ChunkSize)
    /\ cleaned = Zeros(ChunkSize)
    /\ run_output = Zeros(ChunkSize)
    /\ render_history = Zeros(ChunkSize)
    /\ delay_line = Zeros(DelayFrames)
    /\ delay_pos = 0
    /\ gate = NoGate
    /\ iter = 0
    /\ delay_in = <<>>
    /\ delay_out = <<>>
    /\ delay_blocks = <<>>
    /\ phase = IF disable_echo THEN "none" ELSE "live"
    /\ HasFilter(IF disable_echo THEN NoFilter ELSE new(AecTaps, NLMS_STEP_SIZE))
    /\ output = <<>>
    /\ call = IF disable_echo THEN NoCall
              ELSE [NoCall EXCEPT !.op = "new", !.tap_len = AecTaps]
    /\ pre = NoFilter
    /\ ingested = <<>>
    /\ offered = 0
    /\ HoldStart
    /\ IoIdle

(* One iteration of run's loop *)
RunLoop ==
    /\ iter < MaxIters
    /\ \E chunk \in Chunks :
          /\ input' = chunk
          /\ IF ~disable_echo
             THEN \E render_level \in {rms_level(render_history)},
                     capture_level \in {rms_level(chunk)} :
                     \E adapt \in {gate_adapt(render_level, capture_level,
                                              MIN_RENDER_LEVEL, DOUBLE_TALK_RATIO)} :
                        /\ gate' = [render_level |-> render_level,
                                    capture_level |-> capture_level, adapt |-> adapt]
                        /\ Process(render_history, chunk, cleaned, adapt)
                        /\ cleaned' = output'
             ELSE /\ cleaned' = chunk
                  /\ gate' = NoGate
                  /\ UNCHANGED filter_vars
    /\ \E d \in {process_delay(cleaned', run_output, delay_line, delay_pos)} :
          /\ run_output' = d.output
          /\ delay_line' = d.delay_line
          /\ delay_pos' = d.delay_pos
          /\ render_history' = d.output
          /\ delay_in' = delay_in \o cleaned'
          /\ delay_out' = delay_out \o d.output
          /\ delay_blocks' = Append(delay_blocks, Len(cleaned'))
    /\ iter' = iter + 1
    /\ UNCHANGED <<disable_echo, hold_vars, io_vars>>

RunNext == RunLoop

SpecRun == RunInit /\ [][RunNext]_vars

-----------------------------------------------------------------------------
(* The delay line on its own: one line of D frames, built as run builds it, *)
(* and calls of process_delay on blocks of any length                       *)

DelayLens == 1..MaxDelay

DelayVals == {5, -7}

DelayBlocks == UNION {[1..n -> DelayVals] : n \in 0..MaxBlock}

(* let mut delay_line = vec![0i16; delay_frames]; let mut delay_pos = 0 *)
DelayInit ==
    /\ phase = "none"
    /\ HasFilter(NoFilter)
    /\ output = <<>>
    /\ call = NoCall
    /\ pre = NoFilter
    /\ ingested = <<>>
    /\ offered = 0
    /\ disable_echo = TRUE
    /\ input = <<>>
    /\ cleaned = <<>>
    /\ run_output = <<>>
    /\ render_history = <<>>
    /\ \E D \in DelayLens : delay_line = Zeros(D)
    /\ delay_pos = 0
    /\ gate = NoGate
    /\ iter = 0
    /\ delay_in = <<>>
    /\ delay_out = <<>>
    /\ delay_blocks = <<>>
    /\ HoldStart
    /\ IoIdle

(* process_delay(&block, &mut out, &mut delay_line, &mut delay_pos) *)
DelayCall ==
    /\ Len(delay_blocks) < MaxDelayCalls
    /\ \E block \in DelayBlocks :
          /\ Len(delay_in) + Len(block) <= MaxDelaySamples
          /\ \E d \in {process_delay(block, StaleBuffer(Len(block)),
                                     delay_line, delay_pos)} :
                /\ cleaned' = block
                /\ run_output' = d.output
                /\ delay_line' = d.delay_line
                /\ delay_pos' = d.delay_pos
                /\ delay_in' = delay_in \o block
                /\ delay_out' = delay_out \o d.output
                /\ delay_blocks' = Append(delay_blocks, Len(block))
    /\ UNCHANGED <<filter_vars, disable_echo, input, render_history, gate, iter,
                   hold_vars, io_vars>>

DelayNext == DelayCall

SpecDelay == DelayInit /\ [][DelayNext]_vars

-----------------------------------------------------------------------------
(* src/main.rs: the voice state of run's loop.  Frequencies are whole Hz.   *)
(* The samples read and written and the gain do not enter the voice state   *)
(* except through the pitches found, which are the loop's input here.       *)

(* The voice state as one value *)
Voices ==
    [active_count |-> active_count, active_freqs |-> active_freqs,
     last_reported |-> last_reported, phases |-> phases,
     frames_since_detection |-> frames_since_detection]

(* pitches.truncate(MAX_VOICES) under if pitches.len() > MAX_VOICES *)
truncate(p, n) == IF Len(p) > n THEN SubSeq(p, 1, n) ELSE p

(* Lines 68-78: a voice is reported, and remembered, when it moved by more  *)
(* than 3 Hz                                                                *)
report(freqs, last, n) ==
    [idx \in 1..MAX_VOICES |->
        IF idx <= n /\ Abs(freqs[idx] - last[idx]) > 3 THEN freqs[idx] ELSE last[idx]]

(* Lines 57-80: the branch taken when pitches is not empty *)
detection(v, found) ==
    LET p == truncate(found, MAX_VOICES)
        n == Len(p)
        freqs == [idx \in 1..MAX_VOICES |-> IF idx <= n THEN p[idx] ELSE 0]
        last == [idx \in 1..MAX_VOICES |-> IF idx <= n THEN v.last_reported[idx] ELSE 0]
    IN  [v EXCEPT !.active_count = n,
                  !.active_freqs = freqs,
                  !.last_reported = report(freqs, last, n),
                  !.frames_since_detection = 0]

(* Faulty variant: the hold lasts one block more *)
hold_on_inclusive(frames) == frames <= HOLD_FRAMES

(* frames_since_detection < HOLD_FRAMES *)
hold_on(frames) == frames < HOLD_FRAMES

(* Lines 81-93: the branches taken when pitches is empty *)
no_detection(v) ==
    IF v.active_count > 0
    THEN IF hold_on(v.frames_since_detection)
         THEN [v EXCEPT !.frames_since_detection = @ + 1]
         ELSE [v EXCEPT !.active_count = 0,
                        !.active_freqs = Zeros(MAX_VOICES),
                        !.last_reported = Zeros(MAX_VOICES),
                        !.phases = Zeros(MAX_VOICES),
                        !.frames_since_detection = HOLD_FRAMES]
    ELSE [v EXCEPT !.frames_since_detection = HOLD_FRAMES]

(* synthesize_chunk, as far as the phases go: with no voice every phase is  *)
(* zeroed; otherwise the phases of the n voices advance and the rest are    *)
(* zeroed                                                                   *)
synthesize_chunk(ph, n) ==
    IF n = 0 THEN Zeros(Len(ph))
    ELSE [idx \in 1..Len(ph) |-> IF idx <= n THEN ph[idx] + 1 ELSE 0]

(* What detect_pitches can return: at most MAX_VOICES frequencies, any two  *)
(* more than 5 Hz apart                                                     *)
FreqVals == {100, 102, 440, 880}

PitchLists ==
    {p \in UNION {[1..n -> FreqVals] : n \in 0..MAX_VOICES} :
        \A i, j \in 1..Len(p) : i # j => Abs(p[i] - p[j]) > 5}

HoldInit ==
    /\ phase = "none"
    /\ HasFilter(NoFilter)
    /\ output = <<>>
    /\ call = NoCall
    /\ pre = NoFilter
    /\ ingested = <<>>
    /\ offered = 0
    /\ RunIdle
    /\ HoldStart
    /\ IoIdle

(* One iteration of run's loop *)
HoldLoop ==
    /\ hold_iter < MaxHoldIters
    /\ \E loud \in BOOLEAN, found \in PitchLists :
          \E p \in {IF loud THEN found ELSE <<>>} :
             \E v \in {IF p # <<>> THEN detection(Voices, p) ELSE no_detection(Voices)} :
                /\ pitches' = p
                /\ active_count' = v.active_count
                /\ active_freqs' = v.active_freqs
                /\ last_reported' = v.last_reported
                /\ frames_since_detection' = v.frames_since_detection
                /\ phases' = synthesize_chunk(v.phases, v.active_count)
                /\ quiet' = IF p # <<>> THEN 0 ELSE quiet + 1
                /\ held' = IF p # <<>>
                           THEN [count |-> v.active_count, freqs |-> v.active_freqs]
                           ELSE held
    /\ hold_iter' = hold_iter + 1
    /\ UNCHANGED <<filter_vars, run_vars, io_vars>>

HoldNext == HoldLoop

SpecHold == HoldInit /\ [][HoldNext]_vars

-----------------------------------------------------------------------------
(* read_chunk and write_chunk (src/bin/delay-jammer.rs and src/main.rs hold *)
(* the same two functions): one call, a step for each answer of the device  *)

(* The errors of readi and writei other than EPIPE and EAGAIN, and those of *)
(* pcm.prepare()                                                            *)
OtherErrnos == {"EIO", "ENODEV"}

PrepareErrnos == {"EBADFD", "ENODEV"}

(* The frames a device delivers, and what a buffer to be read into holds *)
FrameVals == {1, 2}

StaleFrame == 9

(* Faulty variant: offset is set to the frames of the last transfer *)
next_offset_assign(off, frames) == frames

(* offset += frames *)
next_offset(off, frames) == off + frames

(* let mut offset = 0, on entry of read_chunk or write_chunk *)
IoInit ==
    /\ phase = "none"
    /\ HasFilter(NoFilter)
    /\ output = <<>>
    /\ call = NoCall
    /\ pre = NoFilter
    /\ ingested = <<>>
    /\ offered = 0
    /\ RunIdle
    /\ HoldStart
    /\ io_op \in {"read", "write"}
    /\ io_pc = "loop"
    /\ \E n \in 0..MaxChunk :
          buffer \in IF io_op = "read" THEN {[i \in 1..n |-> StaleFrame]}
                     ELSE [1..n -> FrameVals]
    /\ offset = 0
    /\ io_result = "none"
    /\ io_moved = <<>>
    /\ io_last = NoAnswer
    /\ io_prepares = 0
    /\ io_again = 0
    /\ io_tries = 0

(* The while test holds and readi or writei is called on buffer[offset..] *)
IoCalls ==
    /\ io_pc = "loop"
    /\ offset < Len(buffer)
    /\ io_tries < MaxTries
    /\ io_tries' = io_tries + 1

Answer(a, p, frames) ==
    [answer |-> a, prepare |-> p, frames |-> frames, offset |-> offset,
     buffer |-> buffer]

(* Ok(frames) => offset += frames *)
IoTransfer ==
    /\ IoCalls
    /\ \E frames \in 0..(Len(buffer) - offset) :
          /\ IF io_op = "read"
             THEN \E data \in [1..frames -> FrameVals] :
                     /\ buffer' = [i \in 1..Len(buffer) |->
                                      IF i > offset /\ i <= offset + frames
                                      THEN data[i - offset] ELSE buffer[i]]
                     /\ io_moved' = io_moved \o data
             ELSE /\ buffer' = buffer
                  /\ io_moved' = io_moved \o SubSeq(buffer, offset + 1, offset + frames)
          /\ offset' = next_offset(offset, frames)
          /\ io_last' = Answer("Ok", "none", frames)
    /\ UNCHANGED <<filter_vars, run_vars, hold_vars, io_op, io_pc, io_result,
                   io_prepares, io_again>>

(* Err(err) if err.errno() == Errno::EPIPE => pcm.prepare()?, prepare Ok *)
IoEpipeRecovered ==
    /\ IoCalls
    /\ io_last' = Answer("EPIPE", "Ok", 0)
    /\ io_prepares' = io_prepares + 1
    /\ UNCHANGED <<filter_vars, run_vars, hold_vars, io_op, io_pc, buffer, offset,
                   io_result, io_moved, io_again>>

(* The same arm when pcm.prepare() fails: ? returns its error *)
IoEpipePrepareFails ==
    /\ IoCalls
    /\ \E e \in PrepareErrnos :
          /\ io_last' = Answer("EPIPE", e, 0)
          /\ io_result' = e
    /\ io_pc' = "err"
    /\ UNCHANGED <<filter_vars, run_vars, hold_vars, io_op, buffer, offset,
                   io_moved, io_prepares, io_again>>

(* Err(err) if err.errno() == Errno::EAGAIN => continue *)
IoEagain ==
    /\ IoCalls
    /\ io_last' = Answer("EAGAIN", "none", 0)
    /\ io_again' = io_again + 1
    /\ UNCHANGED <<filter_vars, run_vars, hold_vars, io_op, io_pc, buffer, offset,
                   io_result, io_moved, io_prepares>>

(* Err(err) => return Err(err.into()) *)
IoError ==
    /\ IoCalls
    /\ \E e \in OtherErrnos :
          /\ io_last' = Answer(e, "none", 0)
          /\ io_result' = e
    /\ io_pc' = "err"
    /\ UNCHANGED <<filter_vars, run_vars, hold_vars, io_op, buffer, offset,
                   io_moved, io_prepares, io_again>>

(* The while test fails: Ok(()) *)
IoReturn ==
    /\ io_pc = "loop"
    /\ ~(offset < Len(buffer))
    /\ io_pc' = "ok"
    /\ io_result' = "Ok"
    /\ UNCHANGED <<filter_vars, run_vars, hold_vars, io_op, buffer, offset,
                   io_moved, io_last, io_prepares, io_again, io_tries>>

IoNext ==
    \/ IoTransfer
    \/ IoEpipeRecovered
    \/ IoEpipePrepareFails
    \/ IoEagain
    \/ IoError
    \/ IoReturn

SpecIO == IoInit /\ [][IoNext]_vars

-----------------------------------------------------------------------------
(* What the claims are stated with *)

IsBlockCall == call.op = "process_block"

IsGoodCall == IsBlockCall /\ call.ok

IsMismatch ==
    IsBlockCall /\ (Len(call.render) # Len(call.capture) \/ Len(call.capture) # call.out_len)

(* The j-th most recent of the first n render samples ingested, j >= 1;     *)
(* zero stands for the samples before construction                          *)
LagAt(n, j) == IF j <= n THEN ingested[n - j + 1] ELSE 0

(* How many samples had been ingested when sample i of the last call was in *)
IngestedAt(i) == Len(ingested) - Len(call.trace) + i

RECURSIVE SumTo(_, _)
SumTo(f, n) == IF n = 0 THEN 0 ELSE f[n] + SumTo(f, n - 1)

(* C1: in every state of a filter, from construction on, energy >= epsilon. *)
C1_EnergyFloorAlways ==
    phase = "live" => ~DecLess(energy, epsilon)

(* C2: a call whose three slices differ in length fails before any sample   *)
(* is processed: the filter is what it was and the output buffer is         *)
(* untouched.                                                               *)
C2_MismatchLeavesState ==
    IsMismatch =>
        /\ ~call.ok
        /\ phase = "panicked"
        /\ Self = pre
        /\ output = StaleBuffer(call.out_len)
        /\ call.trace = <<>>

C2_Witness ==
    /\ IsMismatch
    /\ Len(call.render) = Len(call.capture)
    /\ call.out_len = Len(call.render) - 1
    /\ call.out_len > 0
    /\ Len(ingested) > 0

(* C3: ring continuity.  Cutting the block of a call at any point k and     *)
(* making two calls, one after the other with the same adapt flag, leaves   *)
(* the filter and the output samples that the one call left.                *)
C3_RingContinuity ==
    IsGoodCall =>
        \A k \in 0..Len(call.render) :
            LET n == Len(call.render)
                one == process_block(pre, SubSeq(call.render, 1, k),
                                     SubSeq(call.capture, 1, k),
                                     StaleBuffer(k), call.adapt)
                two == process_block(one.s, SubSeq(call.render, k + 1, n),
                                     SubSeq(call.capture, k + 1, n),
                                     StaleBuffer(n - k), call.adapt)
            IN  /\ one.ok /\ two.ok
                /\ two.s = Self
                /\ one.output \o two.output = output

C3_Witness ==
    /\ IsGoodCall
    /\ Len(taps) = 2
    /\ Len(call.render) = 3
    /\ call.adapt
    /\ taps # pre.taps
    /\ history_pos = 1

(* C4: with mu = 0 every tap stays zero and each call's output is its       *)
(* capture block.                                                           *)
C4_MuZeroNoOp ==
    (phase = "live" /\ mu.num = 0) =>
        /\ \A k \in 1..Len(taps) : taps[k] = 0
        /\ IsGoodCall => output = call.capture

C4_Witness ==
    /\ IsGoodCall
    /\ mu.num = 0
    /\ call.adapt
    /\ Len(call.render) >= 2
    /\ \A i \in 1..Len(call.render) : call.render[i] # 0 /\ call.capture[i] # 0
    /\ Len(ingested) > Len(call.render)
    /\ output = call.capture

(* C5: fixed lag.  At every sample, for every cursor position, taps[k] is   *)
(* multiplied by the (k+1)-th most recent render sample and is updated with *)
(* that same sample; with all taps equal to w and only the most recent      *)
(* sample r non-zero the estimate is w * r.                                 *)
C5_FixedLag ==
    IsGoodCall =>
        \A i \in 1..Len(call.trace) :
            LET st == call.trace[i]
                n  == IngestedAt(i)
                N  == Len(st.ingested.taps)
                w  == st.ingested.taps
                norm == DecAdd(st.ingested.energy, st.ingested.epsilon)
            IN  /\ st.estimate = SumTo([k \in 1..N |-> w[k] * LagAt(n, k)], N)
                /\ \A k \in 1..N :
                      st.after.taps[k] - w[k] =
                          IF call.adapt
                          THEN tap_step(mu, st.error, norm, LagAt(n, k))
                          ELSE 0
                /\ ((\A k \in 1..N : w[k] = w[1]) /\ (\A k \in 2..N : LagAt(n, k) = 0))
                      => st.estimate = w[1] * LagAt(n, 1)

C5_Witness ==
    /\ IsGoodCall
    /\ call.adapt
    /\ Len(taps) = 2
    /\ Len(call.trace) >= 2
    /\ LET st == call.trace[Len(call.trace)]
       IN  /\ st.ingested.history_pos = 1
           /\ \A k \in 1..2 : st.ingested.taps[k] # 0 /\ st.after.taps[k] # st.ingested.taps[k]
           /\ LagAt(Len(ingested), 1) # LagAt(Len(ingested), 2)
           /\ st.estimate # 0

(* C6: after every processed sample history holds the N most recent render *)
(* samples in circular order, and history_pos is the slot of the oldest,    *)
(* the next to be overwritten.                                              *)
RingHolds(s, n) ==
    LET N == Len(s.history)
    IN  /\ \A j \in 1..N : s.history[((s.history_pos + N - j) % N) + 1] = LagAt(n, j)
        /\ s.history[s.history_pos + 1] = LagAt(n, N)

C6_HistoryIsRecent ==
    /\ phase = "live" => RingHolds(Self, Len(ingested))
    /\ IsGoodCall =>
          \A i \in 1..Len(call.trace) : RingHolds(call.trace[i].after, IngestedAt(i))

C6_Witness ==
    /\ IsGoodCall
    /\ Len(history) = 2
    /\ Len(ingested) = 3
    /\ Len(call.render) = 2
    /\ history_pos = 1
    /\ ingested[1] # ingested[3]
    /\ ingested[2] # ingested[3]
    /\ ingested[2] # 0

(* C7: taps and history keep the length N > 0 they were built with, the     *)
(* cursor stays in [0, N), and every sample advances it by one modulo N.    *)
C7_ShapeAndCursor ==
    phase = "live" =>
        /\ Len(taps) = call.tap_len
        /\ Len(history) = call.tap_len
        /\ call.tap_len > 0
        /\ history_pos \in 0..(Len(history) - 1)
        /\ IsGoodCall =>
              /\ history_pos = (pre.history_pos + Len(call.render)) % Len(history)
              /\ \A i \in 1..Len(call.trace) :
                    /\ call.trace[i].after.history_pos
                           = (pre.history_pos + i) % Len(history)
                    /\ Len(call.trace[i].after.taps) = call.tap_len
                    /\ Len(call.trace[i].after.history) = call.tap_len

C7_Witness ==
    /\ IsGoodCall
    /\ Len(history) = 2
    /\ pre.history_pos = 1
    /\ Len(call.render) = 2
    /\ history_pos = 1

(* C8: every output sample is capture - estimate clamped to the i16 range   *)
(* (and then narrowed to an integer): the maximum when the residual is      *)
(* above it, the minimum when it is below, never a wrapped value.           *)
C8_Saturation ==
    IsGoodCall =>
        \A i \in 1..Len(call.trace) :
            LET e == call.trace[i].error
                o == output[i]
            IN  /\ e = call.capture[i] * TapScale - call.trace[i].estimate
                /\ o \in I16_MIN..I16_MAX
                /\ e > I16_MAX * TapScale => o = I16_MAX
                /\ e < I16_MIN * TapScale => o = I16_MIN
                /\ (e >= I16_MIN * TapScale /\ e <= I16_MAX * TapScale) =>
                      /\ Abs(o * TapScale - e) < TapScale
                      /\ Abs(o * TapScale) <= Abs(e)

C8_Witness ==
    /\ IsGoodCall
    /\ \E i, j \in 1..Len(call.trace) :
          /\ call.trace[i].error > I16_MAX * TapScale
          /\ output[i] = I16_MAX
          /\ call.trace[j].error < I16_MIN * TapScale
          /\ output[j] = I16_MIN

(* C9: construction with tap_length 0 fails and leaves no filter, so no     *)
(* call ever runs on a filter of length 0; with tap_length > 0 it succeeds  *)
(* with all taps zero, all history zero and the cursor at 0.                *)
C9_Construction ==
    /\ (call.op = "new" /\ call.tap_len = 0) =>
          phase = "panicked" /\ ~call.ok /\ Self = NoFilter
    /\ (call.op = "new" /\ call.tap_len > 0) =>
          /\ phase = "live" /\ call.ok
          /\ taps = Zeros(call.tap_len)
          /\ history = Zeros(call.tap_len)
          /\ history_pos = 0
    /\ IsBlockCall => Len(pre.taps) > 0 /\ Len(pre.history) > 0
    /\ phase = "live" => Len(taps) > 0

C9_Witness ==
    call.op = "new" /\ call.tap_len = 0 /\ phase = "panicked"

(* C10: the gate is evaluated once per block, before process_block, from    *)
(* the levels of the very blocks passed; a render block of level 0 with a   *)
(* capture block of level > 0 (the first iteration's case) gives adapt =    *)
(* false whatever the double-talk ratio, and that block leaves the taps     *)
(* unchanged.                                                               *)
RatioVals ==
    {[num |-> 0, den |-> 1], [num |-> 1, den |-> 2], DOUBLE_TALK_RATIO,
     [num |-> 1000, den |-> 1]}

AllZero(samples) == \A i \in 1..Len(samples) : samples[i] = 0

C10_GateSilentRender ==
    (iter > 0 /\ ~disable_echo) =>
        /\ IsGoodCall
        /\ call.capture = input
        /\ Len(call.trace) = ChunkSize
        /\ offered = iter * ChunkSize
        /\ call.adapt = gate.adapt
        /\ gate.render_level = rms_level(call.render)
        /\ gate.capture_level = rms_level(call.capture)
        /\ gate.adapt = (/\ LevelAbove(gate.render_level, MIN_RENDER_LEVEL)
                         /\ LevelWithin(gate.capture_level, gate.render_level,
                                        DOUBLE_TALK_RATIO))
        /\ iter = 1 => AllZero(call.render)
        /\ (AllZero(call.render) /\ ~AllZero(call.capture)) =>
              /\ ~call.adapt
              /\ taps = pre.taps
              /\ \A ratio \in RatioVals :
                    ~gate_adapt(gate.render_level, gate.capture_level,
                                MIN_RENDER_LEVEL, ratio)

C10_Witness ==
    /\ iter > 1
    /\ ~disable_echo
    /\ AllZero(call.render)
    /\ ~AllZero(call.capture)
    /\ ~AllZero(pre.taps)
    /\ taps = pre.taps
    /\ \E i \in 1..Len(call.trace) :
          /\ ~AllZero(call.trace[i].ingested.history)
          /\ call.trace[i].error # 0

(* C11: only the update depends on the adapt flag.  A call with adapt =     *)
(* false leaves every tap as it was, at every sample; and the history, the  *)
(* cursor and the energy the call leaves are those any call on the same     *)
(* prior filter and render block leaves, whatever its capture samples and   *)
(* its adapt flag.                                                          *)
OtherCaptures(n) == {[i \in 1..n |-> I16_MIN + i]}

C11_AdaptOnlyGatesUpdate ==
    IsGoodCall =>
        /\ ~call.adapt =>
              /\ taps = pre.taps
              /\ \A i \in 1..Len(call.trace) : call.trace[i].after.taps = pre.taps
        /\ \A capture \in OtherCaptures(Len(call.render)), adapt \in BOOLEAN :
              LET other == process_block(pre, call.render, capture,
                                         StaleBuffer(Len(call.render)), adapt)
              IN  /\ other.ok
                  /\ other.s.history = history
                  /\ other.s.history_pos = history_pos
                  /\ other.s.energy = energy
                  /\ ~adapt => other.s.taps = pre.taps

C11_Witness ==
    /\ IsGoodCall
    /\ ~call.adapt
    /\ mu.num # 0
    /\ Len(call.render) >= 2
    /\ ~AllZero(pre.taps)
    /\ taps = pre.taps
    /\ energy # pre.energy
    /\ history # pre.history
    /\ \A i \in 1..Len(call.trace) :
          /\ call.trace[i].error # 0
          /\ ~AllZero(call.trace[i].ingested.history)

(* C13: the order inside process_block.  The samples are processed in       *)
(* increasing order, one cycle each.  For sample i, with Before(i) the      *)
(* filter as sample i - 1 left it: render[i] is in the history and in the   *)
(* energy when the estimate is taken; the estimate and output[i] use the    *)
(* taps of Before(i), not yet updated for i; the update for i uses the      *)
(* residual of i and is what sample i + 1 starts from.                      *)
Before(i) == IF i = 1 THEN pre ELSE call.trace[i - 1].after

(* The estimate of sample i from the taps w: taps[k] times the (k+1)-th     *)
(* most recent render sample, render[i] being the most recent              *)
EstimateWith(w, i) ==
    SumTo([k \in 1..Len(w) |-> w[k] * LagAt(IngestedAt(i), k)], Len(w))

C13_SampleOrder ==
    IsGoodCall =>
        /\ Len(call.trace) = Len(call.render)
        /\ Len(output) = Len(call.render)
        /\ Len(call.trace) > 0 => Self = call.trace[Len(call.trace)].after
        /\ \A i \in 1..Len(call.trace) :
              LET b  == Before(i)
                  st == call.trace[i]
                  e  == call.capture[i] * TapScale - EstimateWith(b.taps, i)
                  norm == DecAdd(st.ingested.energy, st.ingested.epsilon)
              IN  /\ ingested[IngestedAt(i)] = call.render[i]
                  /\ st.ingested.history = Put(b.history, b.history_pos, call.render[i])
                  /\ st.ingested.history_pos = (b.history_pos + 1) % Len(b.history)
                  /\ st.ingested.taps = b.taps
                  /\ st.estimate = EstimateWith(b.taps, i)
                  /\ st.error = e
                  /\ output[i] = to_output(e)
                  /\ st.after.history = st.ingested.history
                  /\ st.after.energy = st.ingested.energy
                  /\ \A k \in 1..Len(b.taps) :
                        st.after.taps[k] =
                            b.taps[k] + (IF call.adapt
                                         THEN tap_step(mu, e, norm, LagAt(IngestedAt(i), k))
                                         ELSE 0)

(* Two samples in one adapting call: each changes the taps, the second      *)
(* estimate differs from what the taps before the call would give, and      *)
(* from what the history without render[2] would give                       *)
C13_Witness ==
    /\ IsGoodCall
    /\ call.adapt
    /\ Len(taps) = 2
    /\ Len(call.trace) >= 2
    /\ call.trace[1].after.taps # pre.taps
    /\ call.trace[2].after.taps # call.trace[1].after.taps
    /\ call.trace[2].estimate # EstimateWith(pre.taps, 2)
    /\ call.trace[2].estimate # estimate_echo(call.trace[1].after)
    /\ output[2] # call.capture[2]

(* C14: energy bookkeeping.  After every processed sample the energy is     *)
(* the sum of the squares of the samples in history when that sum is at     *)
(* least epsilon, and epsilon otherwise.                                    *)
WindowEnergy(s) ==
    LET sum == Dec(SumSquares(s.history), 0)
    IN  IF DecLess(sum, s.epsilon) THEN s.epsilon ELSE sum

C14_EnergyIsWindowSum ==
    IsGoodCall =>
        /\ \A i \in 1..Len(call.trace) :
              call.trace[i].after.energy = WindowEnergy(call.trace[i].after)
        /\ Len(ingested) > 0 => energy = WindowEnergy(Self)

(* C15: whenever update_taps runs, the denominator energy + epsilon it      *)
(* divides by is at least 2 * epsilon, and so greater than zero; the first  *)
(* sample after construction included.                                      *)
NormAt(i) == DecAdd(call.trace[i].ingested.energy, call.trace[i].ingested.epsilon)

C15_NormAtLeastTwoEpsilon ==
    (IsGoodCall /\ call.adapt) =>
        \A i \in 1..Len(call.trace) :
            /\ ~DecLess(NormAt(i), DecTimes(2, DEFAULT_EPSILON))
            /\ DecLess(Dec(0, 0), NormAt(i))
            /\ call.trace[i].ingested.epsilon = DEFAULT_EPSILON

(* The first call on a new filter, adapting, starts with a silent sample:   *)
(* the denominator is exactly 2 * epsilon, and the next sample moves a tap  *)
C15_Witness ==
    /\ IsGoodCall
    /\ call.adapt
    /\ mu.num # 0
    /\ pre.energy = Dec(0, InitEnergyMicro)
    /\ Len(call.trace) >= 2
    /\ call.render[1] = 0
    /\ call.trace[1].error # 0
    /\ NormAt(1) = DecTimes(2, DEFAULT_EPSILON)
    /\ call.trace[2].after.taps # call.trace[1].after.taps

(* C16: the delay line.  Over any sequence of process_delay calls on one    *)
(* line of D >= 1 frames whose cursor started at 0, the t-th sample put out *)
(* is the (t - D)-th sample put in, and 0 for the first D; every call puts  *)
(* out as many samples as it is given; the cursor stays in [0, D) and is    *)
(* the number of samples so far modulo D.                                   *)
C16_DelayLine ==
    LET D == Len(delay_line)
    IN  D > 0 =>
            /\ Len(delay_out) = Len(delay_in)
            /\ \A t \in 1..Len(delay_out) :
                  delay_out[t] = IF t <= D THEN 0 ELSE delay_in[t - D]
            /\ delay_pos \in 0..(D - 1)
            /\ delay_pos = Len(delay_in) % D
            /\ delay_blocks # <<>> =>
                  /\ Len(run_output) = delay_blocks[Len(delay_blocks)]
                  /\ run_output = SubSeq(delay_out, Len(delay_out) - Len(run_output) + 1,
                                          Len(delay_out))

(* Three calls of lengths 1, 3 and 2 on a line of 2 frames: the cursor has  *)
(* wrapped three times and samples of one block come out in the next        *)
C16_Witness ==
    /\ Len(delay_line) = 2
    /\ delay_blocks = <<1, 3, 2>>
    /\ delay_in = <<5, -7, -7, 5, 5, -7>>
    /\ delay_out = <<0, 0, 5, -7, -7, 5>>
    /\ delay_pos = 0

(* C17: the pitch hold.  A block with a detection sets                      *)
(* frames_since_detection to 0; the voices it left stay active, their       *)
(* frequencies unchanged, through each of the next HOLD_FRAMES blocks       *)
(* without a detection, and the block after those clears them: no active    *)
(* voice, frequencies and phases zero.  Always 0 <= frames_since_detection  *)
(* <= HOLD_FRAMES and active_count <= MAX_VOICES.                           *)
C17_PitchHold ==
    /\ frames_since_detection \in 0..HOLD_FRAMES
    /\ active_count \in 0..MAX_VOICES
    /\ (hold_iter > 0 /\ pitches # <<>>) =>
          /\ frames_since_detection = 0
          /\ active_count = Len(pitches)
          /\ \A idx \in 1..MAX_VOICES :
                active_freqs[idx] = IF idx <= Len(pitches) THEN pitches[idx] ELSE 0
    /\ (held.count > 0 /\ quiet \in 1..HOLD_FRAMES) =>
          /\ active_count = held.count
          /\ active_freqs = held.freqs
          /\ frames_since_detection = quiet
          /\ \A idx \in 1..active_count : phases[idx] > 0
    /\ (held.count > 0 /\ quiet > HOLD_FRAMES) =>
          /\ active_count = 0
          /\ active_freqs = Zeros(MAX_VOICES)
          /\ phases = Zeros(MAX_VOICES)
          /\ frames_since_detection = HOLD_FRAMES
    /\ held.count = 0 =>
          /\ active_count = 0
          /\ phases = Zeros(MAX_VOICES)
          /\ frames_since_detection = HOLD_FRAMES

(* Two voices were found, HOLD_FRAMES blocks without a detection have kept  *)
(* them, and the block after those has just cleared them                    *)
C17_Witness ==
    /\ held.count = 2
    /\ quiet = HOLD_FRAMES + 1
    /\ active_count = 0
    /\ active_freqs = Zeros(MAX_VOICES)
    /\ phases = Zeros(MAX_VOICES)
    /\ frames_since_detection = HOLD_FRAMES

(* C18: chunk I/O retry.  read_chunk and write_chunk return Ok only when    *)
(* exactly buffer.len() frames have been transferred.  offset never         *)
(* decreases and never exceeds buffer.len().  EPIPE prepares the device     *)
(* again and EAGAIN does nothing, and both retry from the same offset with  *)
(* the frames transferred so far kept.  Any other error, and a failing      *)
(* prepare, ends the call at once with that error.                          *)
C18_ChunkRetry ==
    io_op # "none" =>
        /\ offset \in 0..Len(buffer)
        /\ offset >= io_last.offset
        /\ Len(io_moved) = offset
        /\ io_moved = SubSeq(buffer, 1, offset)
        /\ io_pc = "ok" =>
              /\ io_result = "Ok"
              /\ offset = Len(buffer)
              /\ io_moved = buffer
        /\ io_result = "Ok" => io_pc = "ok"
        /\ (io_last.answer = "EAGAIN" \/ (io_last.answer = "EPIPE" /\ io_last.prepare = "Ok")) =>
              /\ io_pc = "loop"
              /\ offset = io_last.offset
              /\ buffer = io_last.buffer
              /\ io_result = "none"
        /\ (io_last.answer = "EPIPE" /\ io_last.prepare = "Ok") => io_prepares > 0
        /\ io_last.answer \in OtherErrnos =>
              /\ io_pc = "err"
              /\ io_result = io_last.answer
        /\ (io_last.answer = "EPIPE" /\ io_last.prepare # "Ok") =>
              /\ io_pc = "err"
              /\ io_result = io_last.prepare
        /\ io_pc = "err" =>
              /\ io_result \in OtherErrnos \cup PrepareErrnos
              /\ offset = io_last.offset
              /\ buffer = io_last.buffer
              /\ io_last.answer \in OtherErrnos \cup {"EPIPE"}

(* A read of three frames that took three transfers of one frame, one EPIPE *)
(* with a successful prepare and one EAGAIN, and returned Ok                *)
C18_Witness ==
    /\ io_op = "read"
    /\ io_pc = "ok"
    /\ Len(buffer) = 3
    /\ io_prepares = 1
    /\ io_again = 1
    /\ io_tries = 5
    /\ buffer = <<1, 2, 1>>
    /\ io_moved = buffer

====
